---------------------------- MODULE Spec2Model ----------------------------
(***************************************************************************)
(* Model of the dev-events persistence layer:                              *)
(*   - the cached database connection helper (connectToDatabase),          *)
(*   - the Event schema's pre-save hook with its normalizers,              *)
(*   - the Booking schema's pre-save hook with its existence lookup.       *)
(*                                                                         *)
(* Strings are sequences of one-character strings, so that trimming,       *)
(* regular-expression matching, padding and parsing are computed.          *)
(*                                                                         *)
(* The JavaScript run-time is single threaded: code runs from one job to   *)
(* the next await; promise reactions are jobs in a FIFO microtask queue.   *)
(***************************************************************************)
EXTENDS Integers, Sequences, FiniteSets, TLC

VARIABLES
    cachedConn,     \* cached.conn: NULL or the connection object
    cachedPromise,  \* cached.promise: NULL or the attempt's promise
    attempts,       \* attempts[a]: the promise created at line 50 by attempt a
    waiters,        \* waiters[a]: the calls suspended on attempt a, in await order
    calls,          \* calls[c]: where invocation c of connectToDatabase stands
    queue,          \* the microtask queue (FIFO)
    events,         \* the Event collection: id -> stored document or Absent
    bookings,       \* the Booking collection: a set of stored documents
    bookingSave,    \* the Booking save in progress (pre-save hook position)
    lastSave,       \* outcome of the most recent save reported to its caller
    timeIn,         \* input of a stand-alone normalizeTime application
    timeOut         \* its result

connVars  == <<cachedConn, cachedPromise, attempts, waiters, calls, queue>>
storeVars == <<events, bookings, bookingSave, lastSave>>
timeVars  == <<timeIn, timeOut>>
vars      == <<connVars, storeVars, timeVars>>

----------------------------------------------------------------------------
(* Bounds *)

\* number of connectToDatabase invocations explored
MaxCalls == 4

\* null (cached = { conn: null, promise: null })
NULL == 0


----------------------------------------------------------------------------
(* Connection cache                                                        *)

CallIds == 1 .. MaxCalls

\* A connect attempt never outlives the call that started it, and each call
\* starts at most one: attempt ids are 1 .. MaxCalls.
AttemptIds == 1 .. MaxCalls

\* mongooseInstance.connection of the instance attempt a resolved with
Connection(a) == a

CallJob(c)     == [type |-> "call", id |-> c, ok |-> TRUE]
ResumeJob(c)   == [type |-> "resume", id |-> c, ok |-> TRUE]
SettleJob(a, ok) == [type |-> "settle", id |-> a, ok |-> ok]

IdleCall == [pc |-> "idle", awaits |-> NULL, result |-> NULL]

ConnInit ==
    /\ cachedConn = NULL
    /\ cachedPromise = NULL
    /\ attempts = << >>
    /\ waiters = << >>
    /\ calls = [c \in CallIds |-> IdleCall]
    /\ queue = << >>

\* `if (cached.conn)`
HasCachedConn == cachedConn # NULL

NeedsNewPromiseAlways == TRUE

\* `if (!cached.promise)`
NeedsNewPromise == cachedPromise = NULL

PromiseAfterFailureKept == cachedPromise

\* `cached.promise = null` in the catch block
PromiseAfterFailure == NULL

\* A caller invokes connectToDatabase(): the invocation runs as a job of the
\* run-time (the caller's own task or reaction).
Invoke(c) ==
    /\ calls[c].pc = "idle"
    /\ \A d \in CallIds : d < c => calls[d].pc # "idle"
    /\ calls' = [calls EXCEPT ![c].pc = "queued"]
    /\ queue' = Append(queue, CallJob(c))
    /\ UNCHANGED <<cachedConn, cachedPromise, attempts, waiters>>
    /\ UNCHANGED <<storeVars, timeVars>>

\* connectToDatabase from its entry to the await (or the early return).
Enter(c) ==
    /\ queue # << >>
    /\ Head(queue) = CallJob(c)
    /\ UNCHANGED <<storeVars, timeVars>>
    /\ IF HasCachedConn
       THEN /\ calls' = [calls EXCEPT ![c] =
                            [pc |-> "returned", awaits |-> NULL, result |-> cachedConn]]
            /\ queue' = Tail(queue)
            /\ UNCHANGED <<cachedConn, cachedPromise, attempts, waiters>>
       ELSE LET fresh    == NeedsNewPromise
                p        == IF fresh THEN Len(attempts) + 1 ELSE cachedPromise
                attempts1 == IF fresh
                             THEN Append(attempts, [io |-> "inflight", state |-> "pending"])
                             ELSE attempts
                waiters1  == IF fresh THEN Append(waiters, << >>) ELSE waiters
                settled   == attempts1[p].state # "pending"
            IN  /\ p \in AttemptIds
                /\ cachedPromise' = p
                /\ attempts' = attempts1
                /\ calls' = [calls EXCEPT ![c] =
                                [pc |-> "awaiting", awaits |-> p, result |-> NULL]]
                /\ waiters' = IF settled THEN waiters1
                              ELSE [waiters1 EXCEPT ![p] = Append(@, c)]
                /\ queue' = IF settled THEN Append(Tail(queue), ResumeJob(c))
                            ELSE Tail(queue)
                /\ UNCHANGED cachedConn

\* The driver finishes attempt a (success or failure): the reaction that
\* settles the promise made at line 50 is queued.
ConnectDone(a, ok) ==
    /\ a \in 1 .. Len(attempts)
    /\ attempts[a].io = "inflight"
    /\ attempts' = [attempts EXCEPT ![a].io = "done"]
    /\ queue' = Append(queue, SettleJob(a, ok))
    /\ UNCHANGED <<cachedConn, cachedPromise, waiters, calls>>
    /\ UNCHANGED <<storeVars, timeVars>>

RECURSIVE ResumeJobs(_)
ResumeJobs(cs) ==
    IF cs = << >> THEN << >> ELSE <<ResumeJob(Head(cs))>> \o ResumeJobs(Tail(cs))

\* The `.then` reaction runs: the promise settles and the reactions of the
\* calls awaiting it are queued in the order they awaited.
Settle(a, ok) ==
    /\ queue # << >>
    /\ Head(queue) = SettleJob(a, ok)
    /\ attempts' = [attempts EXCEPT ![a].state = IF ok THEN "fulfilled" ELSE "rejected"]
    /\ queue' = Tail(queue) \o ResumeJobs(waiters[a])
    /\ waiters' = [waiters EXCEPT ![a] = << >>]
    /\ UNCHANGED <<cachedConn, cachedPromise, calls>>
    /\ UNCHANGED <<storeVars, timeVars>>

\* connectToDatabase after the await: the assignment and return, or the catch.
Resume(c) ==
    /\ queue # << >>
    /\ Head(queue) = ResumeJob(c)
    /\ queue' = Tail(queue)
    /\ IF attempts[calls[c].awaits].state = "fulfilled"
       THEN /\ cachedConn' = Connection(calls[c].awaits)
            /\ calls' = [calls EXCEPT ![c].pc = "returned",
                                      ![c].result = Connection(calls[c].awaits)]
            /\ UNCHANGED cachedPromise
       ELSE /\ cachedPromise' = PromiseAfterFailure
            /\ calls' = [calls EXCEPT ![c].pc = "threw"]
            /\ UNCHANGED cachedConn
    /\ UNCHANGED <<attempts, waiters>>
    /\ UNCHANGED <<storeVars, timeVars>>

----------------------------------------------------------------------------
(* Strings                                                                 *)

\* `undefined`: a path the caller never set
Undefined == <<"undefined">>

\* what \s and String.prototype.trim treat as white space (those used here)
WhiteSpace == {" ", "\t", "\n"}

DigitChars == <<"0", "1", "2", "3", "4", "5", "6", "7", "8", "9">>
Digit == {DigitChars[i] : i \in 1 .. 10}

UpperCase == <<"A", "B", "C", "D", "E", "F", "G", "H", "I", "J", "K", "L", "M",
               "N", "O", "P", "Q", "R", "S", "T", "U", "V", "W", "X", "Y", "Z">>
LowerCase == <<"a", "b", "c", "d", "e", "f", "g", "h", "i", "j", "k", "l", "m",
               "n", "o", "p", "q", "r", "s", "t", "u", "v", "w", "x", "y", "z">>
LowerLetter == {LowerCase[i] : i \in 1 .. 26}

LowerOf == [ch \in {UpperCase[i] : i \in 1 .. 26} |->
               LowerCase[CHOOSE i \in 1 .. 26 : UpperCase[i] = ch]]

toLowerCaseChar(ch) == IF ch \in DOMAIN LowerOf THEN LowerOf[ch] ELSE ch

RECURSIVE toLowerCase(_)
toLowerCase(s) ==
    IF s = << >> THEN << >> ELSE <<toLowerCaseChar(Head(s))>> \o toLowerCase(Tail(s))

RECURSIVE trimStart(_)
trimStart(s) ==
    IF s # << >> /\ Head(s) \in WhiteSpace THEN trimStart(Tail(s)) ELSE s

RECURSIVE trimEnd(_)
trimEnd(s) ==
    IF s # << >> /\ s[Len(s)] \in WhiteSpace
    THEN trimEnd(SubSeq(s, 1, Len(s) - 1))
    ELSE s

trim(s) == trimEnd(trimStart(s))

IsDigits(s) == \A i \in 1 .. Len(s) : s[i] \in Digit

DigitValue(ch) == CHOOSE n \in 0 .. 9 : DigitChars[n + 1] = ch

\* Number(s) for a string of decimal digits
RECURSIVE Number(_)
Number(s) ==
    IF s = << >> THEN 0
    ELSE 10 * Number(SubSeq(s, 1, Len(s) - 1)) + DigitValue(s[Len(s)])

\* n.toString() for n >= 0
RECURSIVE toString(_)
toString(n) ==
    IF n < 10 THEN <<DigitChars[n + 1]>>
    ELSE toString(n \div 10) \o <<DigitChars[(n % 10) + 1]>>

RECURSIVE padStart(_, _, _)
padStart(s, width, ch) ==
    IF Len(s) >= width THEN s ELSE padStart(<<ch>> \o s, width, ch)

\* a value returned, or an Error thrown
Return(v) == [ok |-> TRUE, value |-> v, error |-> ""]
Throw(msg) == [ok |-> FALSE, value |-> << >>, error |-> msg]

----------------------------------------------------------------------------
(* Event model: generateSlug                                               *)

StripNothing(s) == s

\* .replace(/[^a-z0-9\s-]/g, "")
StripDisallowed(s) ==
    SelectSeq(s, LAMBDA ch : ch \in LowerLetter \cup Digit \cup WhiteSpace \cup {"-"})

\* .replace(/\s+/g, "-")
RECURSIVE WhitespaceToDash(_)
WhitespaceToDash(s) ==
    IF s = << >> THEN << >>
    ELSE IF Head(s) \in WhiteSpace
         THEN <<"-">> \o WhitespaceToDash(trimStart(Tail(s)))
         ELSE <<Head(s)>> \o WhitespaceToDash(Tail(s))

\* .replace(/-+/g, "-")
RECURSIVE CollapseDashes(_)
CollapseDashes(s) ==
    IF Len(s) < 2 THEN s
    ELSE IF s[1] = "-" /\ s[2] = "-"
         THEN CollapseDashes(Tail(s))
         ELSE <<s[1]>> \o CollapseDashes(Tail(s))

generateSlug(title) ==
    CollapseDashes(WhitespaceToDash(StripDisallowed(trim(toLowerCase(title)))))

----------------------------------------------------------------------------
(* Event model: normalizeTime                                              *)

\* trimmed.match(/^(\d{1,2}):(\d{2})(?::\d{2})?$/): the number of hour digits
\* of the match, or 0 when there is none
TimeMatch(s) ==
    LET fits(hl) ==
            /\ Len(s) \in {hl + 3, hl + 6}
            /\ IsDigits(SubSeq(s, 1, hl))
            /\ s[hl + 1] = ":"
            /\ IsDigits(SubSeq(s, hl + 2, hl + 3))
            /\ Len(s) = hl + 6 => (s[hl + 4] = ":" /\ IsDigits(SubSeq(s, hl + 5, hl + 6)))
    IN  IF fits(1) THEN 1 ELSE IF fits(2) THEN 2 ELSE 0

HoursOutOfRangeLax(hours) == hours < 0 \/ hours > 24

\* `hours < 0 || hours > 23`
HoursOutOfRange(hours) == hours < 0 \/ hours > 23

\* `minutes < 0 || minutes > 59`
MinutesOutOfRange(minutes) == minutes < 0 \/ minutes > 59

normalizeTime(value) ==
    LET trimmed == trim(value)
        hl      == TimeMatch(trimmed)
        hours   == Number(SubSeq(trimmed, 1, hl))
        minutes == Number(SubSeq(trimmed, hl + 2, hl + 3))
        hh      == padStart(toString(hours), 2, "0")
        mm      == padStart(toString(minutes), 2, "0")
    IN  IF hl = 0 THEN Throw("Invalid event time format (expected HH:mm)")
        ELSE IF HoursOutOfRange(hours) \/ MinutesOutOfRange(minutes)
             THEN Throw("Invalid event time value")
             ELSE Return(hh \o <<":">> \o mm)

----------------------------------------------------------------------------
(* Event model: normalizeDate                                              *)

\* Day number of a civil date (days since 1970-01-01), as Date's MakeDay:
\* a day past the month's end runs into the next month.
DaysFromCivil(y, m, d) ==
    LET y1  == IF m <= 2 THEN y - 1 ELSE y
        era == y1 \div 400
        yoe == y1 - era * 400
        mp  == (m + 9) % 12
        doy == (153 * mp + 2) \div 5 + d - 1
        doe == yoe * 365 + yoe \div 4 - yoe \div 100 + doy
    IN  era * 146097 + doe - 719468

\* The civil date of a day number, as Date's YearFromTime/MonthFromTime/DateFromTime
CivilFromDays(z) ==
    LET z1  == z + 719468
        era == z1 \div 146097
        doe == z1 - era * 146097
        yoe == (doe - doe \div 1460 + doe \div 36524 - doe \div 146096) \div 365
        doy == doe - (365 * yoe + yoe \div 4 - yoe \div 100)
        mp  == (5 * doy + 2) \div 153
        d   == doy - (153 * mp + 2) \div 5 + 1
        m   == IF mp < 10 THEN mp + 3 ELSE mp - 9
        y   == yoe + era * 400 + (IF m <= 2 THEN 1 ELSE 0)
    IN  [year |-> y, month |-> m, day |-> d]

NaN == [valid |-> FALSE, day |-> 0, minute |-> 0, second |-> 0]

\* A time value: its UTC day number, minute of that day and second
TimeValue(day, minutes, sec) ==
    [valid |-> TRUE, day |-> day + minutes \div 1440, minute |-> minutes % 1440,
     second |-> sec]

\* new Date(value) for the ISO 8601 forms YYYY-MM-DD, YYYY-MM-DDTHH:mm:ssZ and
\* YYYY-MM-DDTHH:mm:ss+HH:mm (a date-only form is UTC).  Any other string drawn
\* by this model is not a date.
DateParse(s) ==
    LET dateOk == /\ Len(s) >= 10
                  /\ IsDigits(SubSeq(s, 1, 4)) /\ s[5] = "-"
                  /\ IsDigits(SubSeq(s, 6, 7)) /\ s[8] = "-"
                  /\ IsDigits(SubSeq(s, 9, 10))
        timeOk == /\ Len(s) >= 20
                  /\ s[11] = "T"
                  /\ IsDigits(SubSeq(s, 12, 13)) /\ s[14] = ":"
                  /\ IsDigits(SubSeq(s, 15, 16)) /\ s[17] = ":"
                  /\ IsDigits(SubSeq(s, 18, 19))
        zulu   == Len(s) = 20 /\ s[20] = "Z"
        offOk  == /\ Len(s) = 25
                  /\ s[20] \in {"+", "-"}
                  /\ IsDigits(SubSeq(s, 21, 22)) /\ s[23] = ":"
                  /\ IsDigits(SubSeq(s, 24, 25))
        y   == Number(SubSeq(s, 1, 4))
        mo  == Number(SubSeq(s, 6, 7))
        d   == Number(SubSeq(s, 9, 10))
        h   == Number(SubSeq(s, 12, 13))
        mi  == Number(SubSeq(s, 15, 16))
        sec == Number(SubSeq(s, 18, 19))
        off == (IF s[20] = "-" THEN -1 ELSE 1)
                 * (Number(SubSeq(s, 21, 22)) * 60 + Number(SubSeq(s, 24, 25)))
        dayFieldsOk  == mo \in 1 .. 12 /\ d \in 1 .. 31
        timeFieldsOk == /\ mi <= 59 /\ sec <= 59
                        /\ (h <= 23 \/ (h = 24 /\ mi = 0 /\ sec = 0))
        offFieldsOk  == Number(SubSeq(s, 21, 22)) <= 23 /\ Number(SubSeq(s, 24, 25)) <= 59
    IN  IF dateOk /\ Len(s) = 10 /\ dayFieldsOk
        THEN TimeValue(DaysFromCivil(y, mo, d), 0, 0)
        ELSE IF dateOk /\ timeOk /\ zulu /\ dayFieldsOk /\ timeFieldsOk
        THEN TimeValue(DaysFromCivil(y, mo, d), h * 60 + mi, sec)
        ELSE IF dateOk /\ timeOk /\ offOk /\ dayFieldsOk /\ timeFieldsOk /\ offFieldsOk
        THEN TimeValue(DaysFromCivil(y, mo, d), h * 60 + mi - off, sec)
        ELSE NaN

Pad2(n) == padStart(toString(n), 2, "0")

\* the year of toISOString: four digits, or the expanded form outside 0..9999
IsoYear(y) ==
    IF y \in 0 .. 9999 THEN padStart(toString(y), 4, "0")
    ELSE IF y < 0 THEN <<"-">> \o padStart(toString(0 - y), 6, "0")
    ELSE <<"+">> \o padStart(toString(y), 6, "0")

\* date.toISOString()
toISOString(date) ==
    LET c   == CivilFromDays(date.day)
        rem == date.minute
    IN  IsoYear(c.year) \o <<"-">> \o Pad2(c.month) \o <<"-">> \o Pad2(c.day)
        \o <<"T">> \o Pad2(rem \div 60) \o <<":">> \o Pad2(rem % 60)
        \o <<":">> \o Pad2(date.second) \o <<".", "0", "0", "0", "Z">>

WholeString(s) == s

\* .split("T")[0]
BeforeT(s) ==
    IF \E i \in 1 .. Len(s) : s[i] = "T"
    THEN SubSeq(s, 1, (CHOOSE i \in 1 .. Len(s) :
                          s[i] = "T" /\ \A j \in 1 .. i - 1 : s[j] # "T") - 1)
    ELSE s

normalizeDate(value) ==
    LET date == DateParse(value)
    IN  IF ~date.valid THEN Throw("Invalid event date")
        ELSE Return(BeforeT(toISOString(date)))

\* Stand-alone applications of normalizeTime ---------------------------------

\* longest generated time string
MaxTimeLen == 5

TimeAlphabet == {"0", "2", "4", "9", ":", " "}

RECURSIVE StringsOfLen(_, _)
StringsOfLen(alphabet, n) ==
    IF n = 0 THEN {<< >>}
    ELSE {<<ch>> \o s : ch \in alphabet, s \in StringsOfLen(alphabet, n - 1)}

TimeStrings ==
    UNION {StringsOfLen(TimeAlphabet, n) : n \in 0 .. MaxTimeLen}
    \cup { <<"9", ":", "5">>, <<"9", ":", "0", "5">>, <<"2", "4", ":", "0", "0">>,
           <<"2", "3", ":", "5", "9">>, <<"1", "2", ":", "6", "0">>,
           <<"0", "9", ":", "0", "5", ":", "3", "0">>,
           <<" ", "7", ":", "4", "5", ":", "0", "0", " ">>,
           <<"9", ":", "0", "5", ":", "3">>, <<"1", "0", "0", ":", "0", "0">> }

NotApplied == [ok |-> FALSE, value |-> << >>, error |-> "not applied"]

TimeIdle ==
    /\ timeIn = << >>
    /\ timeOut = NotApplied

TimePureInit ==
    /\ timeIn \in TimeStrings
    /\ timeOut = NotApplied

ApplyNormalizeTime ==
    /\ timeOut = NotApplied
    /\ timeOut' = normalizeTime(timeIn)
    /\ UNCHANGED <<timeIn, connVars, storeVars>>

----------------------------------------------------------------------------
(* Event model: schema and pre-save hook                                   *)

\* requiredStringFields, in the order the hook checks them
StringPaths == <<"title", "description", "overview", "image", "venue", "location",
                 "date", "time", "mode", "audience", "organizer">>

\* requiredArrayFields, in the order the hook checks them
ArrayPaths == <<"agenda", "tags">>

\* the schema's paths; `slug` is the only one that is not required
Paths == {StringPaths[i] : i \in 1 .. 11} \cup {ArrayPaths[i] : i \in 1 .. 2} \cup {"slug"}

\* paths declared with trim: true
TrimmedPaths == {"title", "description", "overview", "image", "venue", "location",
                 "mode", "audience", "organizer"}

IsArrayPath(p) == p \in {"agenda", "tags"}

\* an array path the caller never set
NotSet == <<Undefined>>

IsSet(attrs, p) == IF IsArrayPath(p) THEN attrs[p] # NotSet ELSE attrs[p] # Undefined

\* the schema's setter for a path
Cast(p, v) == IF p \in TrimmedPaths THEN trim(v) ELSE v

\* what a path holds when nothing set it: array paths default to []
Default(p) == IF IsArrayPath(p) THEN << >> ELSE Undefined

Stored(id) == id \in DOMAIN events

\* The document handed to the hook: a new document built from attrs, or the
\* stored one with the paths of attrs assigned.
Document(id, attrs) ==
    [p \in Paths |->
        IF IsSet(attrs, p) THEN Cast(p, attrs[p])
        ELSE IF Stored(id) THEN events[id][p]
        ELSE Default(p)]

\* this.isModified("title")
isModifiedTitle(id, attrs) ==
    /\ IsSet(attrs, "title")
    /\ ~Stored(id) \/ Cast("title", attrs.title) # events[id].title

\* `typeof value !== "string" || value.trim().length === 0`
BlankString(value) == value = Undefined \/ trim(value) = << >>

\* `value.some((item) => typeof item !== "string" || item.trim().length === 0)`
SomeBlankItem(value) == \E i \in 1 .. Len(value) : BlankString(value[i])

SlugMissingOnly(doc, titleModified) == doc.slug = Undefined \/ doc.slug = << >>

\* `this.isModified("title") || !this.slug`
SlugStale(doc, titleModified) ==
    titleModified \/ doc.slug = Undefined \/ doc.slug = << >>

Failed(msg, path) == [ok |-> FALSE, error |-> msg, field |-> path]

\* The first check of the hook that throws, or ok.
EventChecks(doc) ==
    LET badString == {i \in 1 .. Len(StringPaths) : BlankString(doc[StringPaths[i]])}
        badArray  == {i \in 1 .. Len(ArrayPaths) :
                         doc[ArrayPaths[i]] = << >> \/ SomeBlankItem(doc[ArrayPaths[i]])}
        firstOf(S) == CHOOSE i \in S : \A j \in S : i <= j
    IN  IF badString # {}
        THEN Failed("is required", StringPaths[firstOf(badString)])
        ELSE IF badArray # {}
        THEN LET p == ArrayPaths[firstOf(badArray)]
             IN  IF doc[p] = << >>
                 THEN Failed("must be a non-empty array", p)
                 ELSE Failed("must contain only non-empty strings", p)
        ELSE IF ~normalizeDate(doc.date).ok
        THEN Failed("Invalid event date", "")
        ELSE IF ~normalizeTime(doc.time).ok
        THEN Failed(normalizeTime(doc.time).error, "")
        ELSE [ok |-> TRUE, error |-> "", field |-> ""]

\* The document as the hook leaves it when no check throws.
EventNormalized(doc, titleModified) ==
    [doc EXCEPT !.date = normalizeDate(doc.date).value,
                !.time = normalizeTime(doc.time).value,
                !.slug = IF SlugStale(doc, titleModified)
                         THEN generateSlug(doc.title)
                         ELSE doc.slug]

\* the unique index on slug
DuplicateSlug(id, doc) ==
    \E other \in DOMAIN events : other # id /\ events[other].slug = doc.slug

NoSave == [op |-> "none", id |-> 0, ok |-> TRUE, error |-> "", field |-> "",
           isNew |-> FALSE, slugIn |-> Undefined, dateTimeSet |-> FALSE]

\* The pre-save hook (lines 101-157): the error it passes to next(), or the
\* normalized document.
EventPreSave(doc, titleModified) ==
    LET check == EventChecks(doc)
    IN  IF check.ok
        THEN [ok |-> TRUE, error |-> "", field |-> "",
              doc |-> EventNormalized(doc, titleModified)]
        ELSE [ok |-> FALSE, error |-> check.error, field |-> check.field, doc |-> doc]

\* document.save() of an Event: the pre-save hook, then the write.
EventSave(id, attrs) ==
    \E hook \in {EventPreSave(Document(id, attrs), isModifiedTitle(id, attrs))} :
        LET dup     == hook.ok /\ DuplicateSlug(id, hook.doc)
            written == hook.ok /\ ~dup
        IN  /\ events' = IF written
                         THEN [x \in DOMAIN events \cup {id} |->
                                  IF x = id THEN hook.doc ELSE events[x]]
                         ELSE events
            /\ lastSave' = [op |-> "event", id |-> id, ok |-> written,
                            error |-> IF dup THEN "E11000 duplicate key" ELSE hook.error,
                            field |-> IF dup THEN "slug" ELSE hook.field,
                            isNew |-> ~Stored(id), slugIn |-> attrs.slug,
                            dateTimeSet |-> IsSet(attrs, "date") \/ IsSet(attrs, "time")]
            /\ UNCHANGED <<bookings, bookingSave, connVars, timeVars>>

\* An external caller deletes an Event (no cascade).
DeleteEvent(id) ==
    /\ Stored(id)
    /\ events' = [x \in DOMAIN events \ {id} |-> events[x]]
    /\ lastSave' = [NoSave EXCEPT !.op = "delete", !.id = id]
    /\ UNCHANGED <<bookings, bookingSave, connVars, timeVars>>

----------------------------------------------------------------------------
(* Booking model: schema and pre-save hook                                 *)

\* bookings written in one run
MaxBookings == 2

\* [^\s@]+
NoSpaceNoAt(s) == s # << >> /\ \A i \in 1 .. Len(s) : s[i] \notin WhiteSpace \cup {"@"}

EmailAlwaysFine(email) == TRUE

\* emailRegex.test(email), emailRegex = /^[^\s@]+@[^\s@]+\.[^\s@]+$/
emailRegexTest(email) ==
    \E i \in 1 .. Len(email), j \in 1 .. Len(email) :
        /\ i < j
        /\ email[i] = "@"
        /\ email[j] = "."
        /\ NoSpaceNoAt(SubSeq(email, 1, i - 1))
        /\ NoSpaceNoAt(SubSeq(email, i + 1, j - 1))
        /\ NoSpaceNoAt(SubSeq(email, j + 1, Len(email)))

\* the schema's setters for email: trim, lowercase
CastEmail(v) == toLowerCase(trim(v))

BookingIdle == [pc |-> "idle", eventId |-> 0, email |-> << >>, eventExists |-> FALSE]

BookingResult(eventId, ok, msg) ==
    [NoSave EXCEPT !.op = "booking", !.id = eventId, !.ok = ok, !.error = msg,
                   !.isNew = TRUE]

\* document.save() of a Booking: the hook up to `await Event.exists(...)`.
BookingSave(eventId, emailIn) ==
    LET email == CastEmail(emailIn)
    IN  /\ bookingSave.pc = "idle"
        /\ Len(bookings) < MaxBookings
        /\ IF ~emailRegexTest(email)
           THEN /\ lastSave' = BookingResult(eventId, FALSE, "Invalid email address")
                /\ UNCHANGED bookingSave
           ELSE /\ bookingSave' = [pc |-> "lookup", eventId |-> eventId,
                                   email |-> email, eventExists |-> FALSE]
                /\ UNCHANGED lastSave
        /\ UNCHANGED <<events, bookings, connVars, timeVars>>

\* The database answers Event.exists({ _id: this.eventId }).
EventExists ==
    /\ bookingSave.pc = "lookup"
    /\ bookingSave' = [bookingSave EXCEPT !.pc = "resume",
                                          !.eventExists = Stored(bookingSave.eventId)]
    /\ UNCHANGED <<events, bookings, lastSave, connVars, timeVars>>

EventFoundUnchecked(b) == TRUE

\* `if (!eventExists)` does not throw
EventFound(b) == b.eventExists

\* The hook resumes after the await; on next() the booking is written.
BookingResume ==
    /\ bookingSave.pc = "resume"
    /\ bookingSave' = BookingIdle
    /\ IF EventFound(bookingSave)
       THEN /\ bookings' = Append(bookings, [eventId |-> bookingSave.eventId,
                                             email |-> bookingSave.email])
            /\ lastSave' = BookingResult(bookingSave.eventId, TRUE, "")
       ELSE /\ lastSave' = BookingResult(bookingSave.eventId, FALSE,
                                         "Referenced event does not exist")
            /\ UNCHANGED bookings
    /\ UNCHANGED <<events, connVars, timeVars>>

----------------------------------------------------------------------------
(* Inputs                                                                  *)

EventIds == {1, 2}

TitleHello == <<"H", "e", "l", "l", "o", ",", " ", "W", "o", "r", "l", "d", "!", " ", " ", "F", "o", "o">>
TitleHi    == <<" ", "H", "i", " ">>
TitleBang  == <<"!", "!">>
Titles == {TitleHello, TitleHi, TitleBang}

SlugMy == <<"m", "y">>
SlugInputs == {Undefined, SlugMy, << >>}

DateUtc     == <<"2", "0", "2", "4", "-", "0", "3", "-", "0", "5", "T", "1", "0", ":", "0", "0", ":", "0", "0", "Z">>
DateOnly    == <<"2", "0", "2", "4", "-", "0", "3", "-", "0", "5">>
DateOffset  == <<"2", "0", "2", "4", "-", "0", "2", "-", "2", "9", "T", "2", "3", ":", "3", "0", ":", "0", "0", "-", "0", "5", ":", "0", "0">>
DateBadMonth == <<"2", "0", "2", "4", "-", "1", "3", "-", "0", "1">>
DateFoo     == <<"f", "o", "o">>
TimeShort   == <<"9", ":", "0", "5">>
TimePadded  == <<"0", "9", ":", "0", "5">>
TimeSeconds == <<" ", "2", "3", ":", "5", "9", ":", "3", "0", " ">>
TimeTooLate == <<"2", "4", ":", "0", "0">>
TimeOneDigitMinute == <<"9", ":", "5">>

\* <<date, time>> pairs a caller assigns
DateTimeInputs ==
    {<<DateUtc, TimeShort>>, <<DateOnly, TimePadded>>, <<DateOffset, TimeSeconds>>,
     <<DateFoo, TimePadded>>, <<DateBadMonth, TimePadded>>,
     <<DateOnly, TimeTooLate>>, <<DateOnly, TimeOneDigitMinute>>}

Text == <<"x">>

BaseAttrs ==
    [title |-> TitleHi, slug |-> Undefined, description |-> Text, overview |-> Text,
     image |-> Text, venue |-> Text, location |-> Text, date |-> DateOnly,
     time |-> TimePadded, mode |-> Text, audience |-> Text,
     agenda |-> <<Text, Text>>, organizer |-> Text, tags |-> <<Text>>]

NoAttrs == [p \in Paths |-> IF IsArrayPath(p) THEN NotSet ELSE Undefined]

BlankInputs ==
    {[BaseAttrs EXCEPT ![StringPaths[i]] = <<" ">>] : i \in 1 .. Len(StringPaths)}
    \cup {[BaseAttrs EXCEPT !.title = Undefined],
          [BaseAttrs EXCEPT !.title = << >>, !.date = << >>]}
    \cup {[BaseAttrs EXCEPT !.time = Undefined]}
    \cup {[BaseAttrs EXCEPT ![ArrayPaths[i]] = v] :
             i \in 1 .. Len(ArrayPaths), v \in {<< >>, <<Text, << >>>>, <<<<" ">>>>}}
    \cup {[BaseAttrs EXCEPT !.agenda = << >>, !.tags = << >>]}

EventInputs ==
    {[BaseAttrs EXCEPT !.title = t, !.slug = s] : t \in Titles, s \in SlugInputs}
    \cup {[BaseAttrs EXCEPT !.date = dt[1], !.time = dt[2]] : dt \in DateTimeInputs}
    \cup {[NoAttrs EXCEPT !.title = t, !.slug = s] :
             t \in Titles \cup {Undefined}, s \in SlugInputs}
    \cup {[NoAttrs EXCEPT !.date = DateOffset, !.time = TimeSeconds],
          [NoAttrs EXCEPT !.time = TimeTooLate]}

StoreEventInputs ==
    {BaseAttrs, [BaseAttrs EXCEPT !.title = TitleHello],
     [BaseAttrs EXCEPT !.date = DateFoo], [BaseAttrs EXCEPT !.time = TimeTooLate]}
    \cup BlankInputs

EmailPlain    == <<"a", "@", "b", ".", "c">>
EmailNoTld    == <<"f", "o", "o", "@", "b", "a", "r">>
EmailUntidy   == <<" ", "A", "@", "b", ".", "c", " ">>
EmailSpace    == <<"a", " ", "b", "@", "c", ".", "d">>
EmailTwoAts   == <<"a", "@", "@", "b", ".", "c">>
EmailInputs == {EmailPlain, EmailNoTld, EmailUntidy, EmailSpace, EmailTwoAts}

----------------------------------------------------------------------------
(* Specifications                                                          *)

StoreInit ==
    /\ events = << >>
    /\ bookings = << >>
    /\ bookingSave = BookingIdle
    /\ lastSave = NoSave

\* The connection cache
Init == ConnInit /\ StoreInit /\ TimeIdle

Next ==
    \/ \E c \in CallIds : Invoke(c)
    \/ \E c \in CallIds : Enter(c)
    \/ \E a \in AttemptIds, ok \in BOOLEAN : ConnectDone(a, ok)
    \/ \E a \in AttemptIds, ok \in BOOLEAN : Settle(a, ok)
    \/ \E c \in CallIds : Resume(c)

Spec == Init /\ [][Next]_vars

\* Event saves
NextEvent ==
    \/ \E id \in EventIds, attrs \in EventInputs : EventSave(id, attrs)
    \/ \E id \in EventIds : DeleteEvent(id)

SpecEvent == Init /\ [][NextEvent]_vars

\* Event and Booking saves, with deletions by external callers
NextStore ==
    \/ \E attrs \in StoreEventInputs : EventSave(1, attrs)
    \/ DeleteEvent(1)
    \/ \E id \in EventIds, email \in EmailInputs : BookingSave(id, email)
    \/ EventExists
    \/ BookingResume

SpecStore == Init /\ [][NextStore]_vars

\* normalizeTime applied to each string of TimeStrings
InitTime == ConnInit /\ StoreInit /\ TimePureInit

NextTime == ApplyNormalizeTime

SpecTime == InitTime /\ [][NextTime]_vars

----------------------------------------------------------------------------
(* Properties of the connection cache (Spec)                               *)

Returned(c) == calls[c].pc = "returned"

Pending == {a \in 1 .. Len(attempts) : attempts[a].state = "pending"}

\* C1: while the first connect attempt is unresolved no second attempt is ever
\* started: every call that has got as far as the await is suspended on attempt
\* 1 and none has finished; and all the calls that awaited attempt 1 and
\* returned hold one and the same connection object.
C1_FirstAttemptShared ==
    /\ (Len(attempts) >= 1 /\ attempts[1].state = "pending") =>
          /\ Len(attempts) = 1
          /\ cachedPromise = 1
          /\ \A c \in CallIds :
                /\ calls[c].pc \in {"idle", "queued", "awaiting"}
                /\ calls[c].pc = "awaiting" => calls[c].awaits = 1
    /\ \A c, d \in CallIds :
          (Returned(c) /\ Returned(d) /\ calls[c].awaits = 1 /\ calls[d].awaits = 1)
              => calls[c].result = calls[d].result

\* three calls shared the first attempt and all returned its connection
C1_Witness ==
    /\ Len(attempts) = 1
    /\ \A c \in 1 .. 3 : Returned(c) /\ calls[c].awaits = 1 /\ calls[c].result = Connection(1)

C3_FailureClearsForRetry ==
    [][ /\ \A c \in CallIds :
              (calls[c].pc = "awaiting" /\ calls'[c].pc # "awaiting"
                  /\ attempts[calls[c].awaits].state = "rejected")
              => /\ calls'[c].pc = "threw"
                 /\ cachedPromise' = NULL
                 /\ cachedConn' = cachedConn
        /\ \A c \in CallIds :
              calls'[c].pc = "threw" => cachedPromise' # calls'[c].awaits
        /\ \A c \in CallIds :
              (calls[c].pc = "queued" /\ calls'[c].pc # "queued"
                  /\ cachedConn = NULL /\ cachedPromise = NULL)
              => /\ Len(attempts') = Len(attempts) + 1
                 /\ calls'[c].pc = "awaiting"
                 /\ calls'[c].awaits = Len(attempts')
                 /\ attempts'[Len(attempts')].state = "pending"
                 /\ cachedPromise' = Len(attempts') ]_vars

\* a call threw on a failed attempt and a later call returned a connection
\* from a fresh attempt
C3_Witness ==
    \E c, d \in CallIds :
        /\ calls[c].pc = "threw"
        /\ Returned(d)
        /\ calls[d].awaits > calls[c].awaits
        /\ cachedConn = Connection(calls[d].awaits)

\* C10 (as claimed): at most one connect attempt is in flight at any time.
C10_AtMostOneInFlight == Cardinality(Pending) <= 1

----------------------------------------------------------------------------
(* Properties of the Event and Booking saves (SpecEvent, SpecStore)        *)

\* the step is an Event save that was written
EventWritten ==
    /\ lastSave'.op = "event"
    /\ lastSave'.ok
    /\ events' # events \/ lastSave' # lastSave

SlugHello == <<"h", "e", "l", "l", "o", "-", "w", "o", "r", "l", "d", "-", "f", "o", "o">>

\* only a-z, 0-9 and single dashes
SlugShaped(s) ==
    /\ \A i \in 1 .. Len(s) : s[i] \in LowerLetter \cup Digit \cup {"-"}
    /\ \A i \in 1 .. Len(s) - 1 : ~(s[i] = "-" /\ s[i + 1] = "-")

\* C4 (as claimed): when a booking is written, the Event it references is in
\* the Event collection.
C4_EventExistsWhenPersisted ==
    [][ bookings' # bookings => Stored(bookings'[Len(bookings')].eventId) ]_vars

\* C4 (amended): the lookup's answer is whether the Event is stored when the
\* lookup runs, and a booking is written only on the answer that it is.
C4_EventExistedAtLookup ==
    [][ /\ (bookingSave.pc = "lookup" /\ bookingSave'.pc = "resume")
              => bookingSave'.eventExists = Stored(bookingSave.eventId)
        /\ bookings' # bookings
              => /\ bookingSave.pc = "resume"
                 /\ bookingSave.eventExists
                 /\ bookings' = Append(bookings, [eventId |-> bookingSave.eventId,
                                                  email |-> bookingSave.email]) ]_vars

\* a booking was written although its Event has been deleted meanwhile
C4_Witness ==
    /\ lastSave.op = "booking"
    /\ lastSave.ok
    /\ Len(bookings) > 0
    /\ ~Stored(lastSave.id)

\* C5 (as claimed): an Event saved with a caller-supplied slug is stored with
\* that slug.
C5_CallerSlugKept ==
    (lastSave.op = "event" /\ lastSave.ok /\ lastSave.slugIn # Undefined)
        => events[lastSave.id].slug = lastSave.slugIn

\* C5 (amended): a caller-supplied non-empty slug is stored only by a re-save
\* that leaves the title as it was; a first save, and a save that changes the
\* title, store the slug generated from the title whatever slug was supplied.
C5_CallerSlugKeptOnlyWithTitleUnchanged ==
    [][ EventWritten =>
          LET id        == lastSave'.id
              supplied  == lastSave'.slugIn \notin {Undefined, << >>}
              titleSame == Stored(id) /\ events'[id].title = events[id].title
          IN  /\ lastSave'.isNew = ~Stored(id)
              /\ (supplied /\ titleSame) => events'[id].slug = lastSave'.slugIn
              /\ ~titleSame => events'[id].slug = generateSlug(events'[id].title) ]_vars

\* a first save with a caller-supplied slug was written
C5_Witness ==
    /\ lastSave.op = "event"
    /\ lastSave.ok
    /\ lastSave.isNew
    /\ lastSave.slugIn = SlugMy
    /\ events[lastSave.id].slug # SlugMy

\* C6: after a written Event save, if the title changed (or the document is
\* new) or the document had no slug, the stored slug is generateSlug of the
\* stored title and consists of a-z, 0-9 and single dashes; otherwise it is the
\* slug the document had.  "Hello, World!  Foo" gives "hello-world-foo".
C6_SlugRegeneration ==
    [][ /\ generateSlug(TitleHello) = SlugHello
        /\ EventWritten =>
              LET id           == lastSave'.id
                  slugBefore   == IF lastSave'.slugIn # Undefined THEN lastSave'.slugIn
                                  ELSE IF Stored(id) THEN events[id].slug
                                  ELSE Undefined
                  titleChanged == ~Stored(id) \/ events'[id].title # events[id].title
              IN  IF titleChanged \/ slugBefore \in {Undefined, << >>}
                  THEN /\ events'[id].slug = generateSlug(events'[id].title)
                       /\ SlugShaped(events'[id].slug)
                  ELSE events'[id].slug = slugBefore ]_vars

\* the example title was saved and its slug stored
C6_Witness ==
    /\ lastSave.op = "event"
    /\ lastSave.ok
    /\ events[lastSave.id].title = TitleHello
    /\ events[lastSave.id].slug = SlugHello

\* HH:MM, hours 00-23, minutes 00-59
IsHHMM(s) ==
    /\ Len(s) = 5
    /\ s[3] = ":"
    /\ IsDigits(<<s[1], s[2], s[4], s[5]>>)
    /\ Number(<<s[1], s[2]>>) <= 23
    /\ Number(<<s[4], s[5]>>) <= 59

DaysInMonth(y, m) ==
    IF m = 2
    THEN (IF (y % 4 = 0 /\ y % 100 # 0) \/ y % 400 = 0 THEN 29 ELSE 28)
    ELSE IF m \in {4, 6, 9, 11} THEN 30 ELSE 31

\* YYYY-MM-DD, a day of the calendar
IsYMD(s) ==
    /\ Len(s) = 10
    /\ s[5] = "-"
    /\ s[8] = "-"
    /\ IsDigits(SubSeq(s, 1, 4) \o SubSeq(s, 6, 7) \o SubSeq(s, 9, 10))
    /\ Number(SubSeq(s, 6, 7)) \in 1 .. 12
    /\ Number(SubSeq(s, 9, 10)) \in
           1 .. DaysInMonth(Number(SubSeq(s, 1, 4)), Number(SubSeq(s, 6, 7)))

DateRolledOver == <<"2", "0", "2", "4", "-", "0", "3", "-", "0", "1">>

RequiredStrings == {StringPaths[i] : i \in 1 .. Len(StringPaths)}

\* what the claim calls a failing Event: the required strings that are empty
\* after trimming, the arrays that are empty or hold an empty string
EmptyStrings(doc) ==
    {p \in RequiredStrings : doc[p] = Undefined \/ trim(doc[p]) = << >>}

EmptyArrays(doc) ==
    {p \in {"agenda", "tags"} :
        doc[p] = << >> \/ \E i \in 1 .. Len(doc[p]) : doc[p][i] = << >>}

\* local@domain.tld: one @, no white space, something before the @, and after
\* it a dot with something on both sides
EmailShaped(e) ==
    /\ Cardinality({i \in 1 .. Len(e) : e[i] = "@"}) = 1
    /\ \A i \in 1 .. Len(e) : e[i] \notin WhiteSpace
    /\ LET at == CHOOSE i \in 1 .. Len(e) : e[i] = "@"
       IN  /\ at > 1
           /\ \E j \in at + 2 .. Len(e) - 1 : e[j] = "."

CollectionsUnchanged == events' = events /\ bookings' = bookings

\* C9: a save that reports an error leaves both collections unchanged; an Event
\* save with an empty required string, an empty array or array item, or an
\* invalid date or time reports an error (naming an offending field when a
\* required string is empty); a Booking save reports an error when the email
\* is not shaped local@domain.tld or the lookup found no event.
C9_FailedSaveWritesNothing ==
    [][ /\ (~lastSave'.ok /\ lastSave' # lastSave) => CollectionsUnchanged
        /\ \A attrs \in StoreEventInputs :
              LET doc == Document(1, attrs)
              IN  (/\ bookingSave' = bookingSave
                   /\ \/ EmptyStrings(doc) # {}
                      \/ EmptyArrays(doc) # {}
                      \/ ~normalizeDate(doc.date).ok
                      \/ ~normalizeTime(doc.time).ok
                   /\ EventSave(1, attrs))
                  => /\ ~lastSave'.ok
                     /\ lastSave'.op = "event"
                     /\ CollectionsUnchanged
                     /\ EmptyStrings(doc) # {}
                           => (lastSave'.field \in EmptyStrings(doc)
                               /\ lastSave'.error = "is required")
        /\ \A id \in EventIds, email \in EmailInputs :
              (~EmailShaped(toLowerCase(trim(email))) /\ BookingSave(id, email))
                  => /\ lastSave' = BookingResult(id, FALSE, "Invalid email address")
                     /\ bookingSave'.pc = "idle"
                     /\ CollectionsUnchanged
        /\ (bookingSave.pc = "resume" /\ bookingSave'.pc = "idle"
                /\ ~bookingSave.eventExists)
              => /\ lastSave' = BookingResult(bookingSave.eventId, FALSE,
                                              "Referenced event does not exist")
                 /\ CollectionsUnchanged ]_vars

\* with an Event and a Booking stored, a save failed on its tags
C9_Witness ==
    /\ Stored(1)
    /\ Len(bookings) > 0
    /\ lastSave.op = "event"
    /\ ~lastSave.ok
    /\ lastSave.field = "tags"

----------------------------------------------------------------------------
(* Properties of normalizeTime (SpecTime)                                  *)

Applied == timeOut # NotApplied

\* C7 (as claimed): "9:5" is normalized to "09:05" and "24:00" raises an error.
C7_PadsBothComponents ==
    Applied =>
        /\ timeIn = TimeOneDigitMinute => timeOut = Return(TimePadded)
        /\ timeIn = TimeTooLate => ~timeOut.ok

\* C7 (amended): "9:05" is normalized to "09:05"; "9:5" is rejected as a format
\* error and "24:00" as a value error; whatever is returned is HH:MM with hours
\* 00-23 and minutes 00-59.
C7_PadsHoursOnly ==
    Applied =>
        /\ timeIn = TimeShort => timeOut = Return(TimePadded)
        /\ timeIn = TimeOneDigitMinute
              => timeOut = Throw("Invalid event time format (expected HH:mm)")
        /\ timeIn = TimeTooLate => timeOut = Throw("Invalid event time value")
        /\ timeOut.ok => IsHHMM(timeOut.value)

\* normalizeTime was applied to "9:5"
C7_Witness == timeIn = TimeOneDigitMinute /\ Applied

=============================================================================
